---------------------------- MODULE Spec2Model ----------------------------
(***************************************************************************)
(* A model of cinder/objects/backup.py: the Backup versioned object (its   *)
(* field schema, change tracking, persistence facade, record codec and     *)
(* version downgrade) and the BackupList bulk fetches.                     *)
(*                                                                         *)
(* Python values are tagged tuples: <<"str", s>>, <<"int", n>>,           *)
(* <<"bool", b>> and <<"none">> (None).  A Python dict, a storage row and  *)
(* the attributes of an object are functions whose domain is the set of    *)
(* keys present; an attribute that was never assigned is outside the       *)
(* domain.                                                                 *)
(***************************************************************************)
EXTENDS Integers, Sequences, FiniteSets, TLC

VARIABLES
    objs,      \* the Backup instances: [val, changed, admin] per instance
    db,        \* the storage collaborator's table: id -> row
    issued,    \* the ids the storage has generated so far; none is reused
    calls,     \* the storage calls issued by the last operation, in order
    result,    \* the last operation: its name, arguments and outcome
    hist,      \* history, per instance: the fields the caller assigned since
               \* the last load, successful create or successful save, and
               \* whether create has succeeded on the instance
    wire       \* what is in transit: a token, the extras it was encoded
               \* with, whether it is as encoded and how it was damaged, the
               \* value decoded from it, a primitive, the version it was
               \* made compatible with and whether twice in a row

vars == <<objs, db, issued, calls, result, hist, wire>>

-----------------------------------------------------------------------------
(* Values *)

None == <<"none">>
StrV(s) == <<"str", s>>
IntV(n) == <<"int", n>>
BoolV(b) == <<"bool", b>>

\* The empty dict.
EmptyMap == [k \in {} |-> None]

\* d.get(k): the value at k, None when k is missing.
Get(d, k) == IF k \in DOMAIN d THEN d[k] ELSE None

\* dict(d, k=v)
Put(d, k, v) == [x \in DOMAIN d \cup {k} |-> IF x = k THEN v ELSE d[x]]

\* d1.update(d2): the keys of d2 win.
Update(d1, d2) ==
    [x \in DOMAIN d1 \cup DOMAIN d2 |-> IF x \in DOMAIN d2 THEN d2[x] ELSE d1[x]]

\* Python truthiness, bool(v).
Truthy(v) ==
    CASE v[1] = "none" -> FALSE
      [] v[1] = "str"  -> v[2] # ""
      [] v[1] = "int"  -> v[2] # 0
      [] v[1] = "bool" -> v[2]

-----------------------------------------------------------------------------
(* The field schema *)

UUIDField == [type |-> "uuid", nullable |-> FALSE]
StringField(nullable) == [type |-> "string", nullable |-> nullable]
IntegerField == [type |-> "integer", nullable |-> FALSE]

VERSION == "1.1"

fields ==
    [id                    |-> UUIDField,
     user_id               |-> UUIDField,
     project_id            |-> UUIDField,
     volume_id             |-> UUIDField,
     host                  |-> StringField(TRUE),
     availability_zone     |-> StringField(TRUE),
     container             |-> StringField(TRUE),
     parent_id             |-> StringField(TRUE),
     status                |-> StringField(TRUE),
     fail_reason           |-> StringField(TRUE),
     size                  |-> IntegerField,
     display_name          |-> StringField(TRUE),
     display_description   |-> StringField(TRUE),
     service_metadata      |-> StringField(TRUE),
     service               |-> StringField(TRUE),
     object_count          |-> IntegerField,
     temp_volume_id        |-> StringField(TRUE),
     temp_snapshot_id      |-> StringField(TRUE),
     num_dependent_backups |-> IntegerField]

FieldNames == DOMAIN fields

\* The fields in the order of their declaration.
FieldOrder ==
    <<"id", "user_id", "project_id", "volume_id", "host", "availability_zone",
      "container", "parent_id", "status", "fail_reason", "size",
      "display_name", "display_description", "service_metadata", "service",
      "object_count", "temp_volume_id", "temp_snapshot_id",
      "num_dependent_backups">>

Reverse(s) == [i \in 1..Len(s) |-> s[Len(s) + 1 - i]]

\* backup.fields.items() iterates in an order the language does not fix:
\* the declaration order (insertion-ordered dicts) or another one.  The
\* model takes the declaration order and its reverse as the two outcomes.
IterationOrders == {FieldOrder, Reverse(FieldOrder)}

obj_extra_fields == <<"name", "is_incremental", "has_dependent_backups">>

ExtraNames == {obj_extra_fields[i] : i \in 1..Len(obj_extra_fields)}

-----------------------------------------------------------------------------
(* Change-tracked attributes (the versioned-object base the class inherits) *)

\* A freshly constructed object, cls(context): no attribute set, no change.
NewObject == [val |-> EmptyMap, changed |-> {}, admin |-> FALSE]

\* self.obj_attr_is_set(name)
obj_attr_is_set(o, name) == name \in DOMAIN o.val

\* Whether the field's type accepts the value: None only where the field is
\* nullable, otherwise a value of the field's own kind.
Accepts(name, value) ==
    CASE value[1] = "none" -> fields[name].nullable
      [] value[1] = "str"  -> fields[name].type \in {"uuid", "string"}
      [] value[1] = "int"  -> fields[name].type = "integer"
      [] OTHER             -> FALSE

\* A mutant of SetItem: a field is marked changed only when its value differs.
SetItemIfDiffers(o, name, value) ==
    [o EXCEPT !.val = Put(o.val, name, value),
              !.changed = IF name \in DOMAIN o.val /\ o.val[name] = value
                          THEN @ ELSE @ \cup {name}]

\* backup[name] = value, for a value the field accepts: the attribute is
\* stored and the field is marked changed, whatever its previous value.
SetItem(o, name, value) ==
    [o EXCEPT !.val = Put(o.val, name, value), !.changed = @ \cup {name}]

\* self.obj_reset_changes()
obj_reset_changes(o) == [o EXCEPT !.changed = {}]

\* self.cinder_obj_get_changes(): changed field -> current value.
cinder_obj_get_changes(o) == [f \in o.changed |-> o.val[f]]

-----------------------------------------------------------------------------
(* Loading an object from a storage row *)

\* A mutant of DbValue: integer fields get no default.
DbValueNoDefault(row, fname) == Get(row, fname)

\* The value _from_db_object assigns to a field: the row's value, and 0 for
\* an integer field whose value in the row is None or missing.
DbValue(row, fname) ==
    IF fields[fname].type = "integer" /\ Get(row, fname) = None
    THEN IntV(0)
    ELSE Get(row, fname)

\* The loop of _from_db_object over the fields in the given order: each
\* field is assigned in turn (backup[name] = value, which stores the value
\* and marks the field changed); an assignment the field refuses (None to a
\* field that is not nullable) raises ValueError and leaves the fields
\* assigned before it as they are.
LoadFields(o, row, order) ==
    LET refused == {n \in 1..Len(order) :
                       ~Accepts(order[n], DbValue(row, order[n]))}
        stop == IF refused = {}
                THEN Len(order) + 1
                ELSE CHOOSE n \in refused : \A m \in refused : n <= m
        done == {order[n] : n \in 1..(stop - 1)}
    IN  [obj |-> [o EXCEPT
                    !.val = [f \in DOMAIN o.val \cup done |->
                                IF f \in done THEN DbValue(row, f)
                                ELSE o.val[f]],
                    !.changed = @ \cup done],
         exc |-> IF refused = {} THEN "" ELSE "ValueError"]

\* A mutant of from_db_object: the changes are not reset after loading.
from_db_object_no_reset(o, row, order) == LoadFields(o, row, order)

\* Backup._from_db_object(context, backup, db_backup): the fields are
\* assigned from the row, then the changes are reset.
from_db_object(o, row, order) ==
    LET loaded == LoadFields(o, row, order)
    IN  IF loaded.exc # ""
        THEN loaded
        ELSE [obj |-> obj_reset_changes(loaded.obj), exc |-> ""]

-----------------------------------------------------------------------------
(* The storage collaborator: a table of rows keyed by id *)

\* A stored row with every column null.
NullRow == [f \in FieldNames |-> None]

\* db.backup_get(context, id)
backup_get(table, id) ==
    IF id \in DOMAIN table
    THEN [row |-> table[id], exc |-> ""]
    ELSE [row |-> EmptyMap, exc |-> "NotFound"]

\* The storage cannot be reached: the insert fails and stores nothing.
Unavailable == "unavailable"

\* db.backup_create(context, values): the row stored is the values given over
\* null columns, under the id the storage generates; an insert the storage
\* fails raises its error.
backup_create(table, values, newid) ==
    IF newid = Unavailable
    THEN [row |-> EmptyMap, table |-> table, exc |-> "DBError"]
    ELSE LET row == Put(Update(NullRow, values), "id", StrV(newid))
         IN  [row |-> row, table |-> Put(table, newid, row), exc |-> ""]

\* db.backup_update(context, id, values)
backup_update(table, id, values) ==
    IF id \in DOMAIN table
    THEN [table |-> Put(table, id, Update(table[id], values)), exc |-> ""]
    ELSE [table |-> table, exc |-> "NotFound"]

\* db.backup_destroy(context, id)
backup_destroy(table, id) ==
    IF id \in DOMAIN table
    THEN [table |-> [k \in DOMAIN table \ {id} |-> table[k]], exc |-> ""]
    ELSE [table |-> table, exc |-> "NotFound"]

\* The rows of the table in the order the storage returns them: listed is
\* a sequence of the table's ids, each once.
RowsOf(table, listed) == [n \in 1..Len(listed) |-> table[listed[n]]]

\* Whether a row passes the filters: each filter key has the given value.
Passes(row, filters) == \A k \in DOMAIN filters : Get(row, k) = filters[k]

\* db.backup_get_all(context, filters)
backup_get_all(table, filters, listed) ==
    SelectSeq(RowsOf(table, listed), LAMBDA row : Passes(row, filters))

\* db.backup_get_all_by_host(context, host)
backup_get_all_by_host(table, host, listed) ==
    SelectSeq(RowsOf(table, listed), LAMBDA row : Get(row, "host") = host)

\* db.backup_get_all_by_project(context, project_id, filters)
backup_get_all_by_project(table, project_id, filters, listed) ==
    SelectSeq(RowsOf(table, listed),
              LAMBDA row : /\ Get(row, "project_id") = project_id
                           /\ Passes(row, filters))

\* db.backup_get_all_by_volume(context, volume_id, filters)
backup_get_all_by_volume(table, volume_id, filters, listed) ==
    SelectSeq(RowsOf(table, listed),
              LAMBDA row : /\ Get(row, "volume_id") = volume_id
                           /\ Passes(row, filters))

\* The key of the table a field value names.
Key(v) == IF v[1] = "str" THEN v[2] ELSE ""

-----------------------------------------------------------------------------
(* The persistence operations.  Each yields the object, the table, the     *)
(* storage calls issued and the exception raised ("" when it returns).     *)

\* Backup.get_by_id(context, id)
get_by_id(table, id, order) ==
    LET got == backup_get(table, id)
        call == [op |-> "backup_get", id |-> id, values |-> EmptyMap,
                 admin |-> FALSE]
    IN  IF got.exc # ""
        THEN [obj |-> NewObject, table |-> table, calls |-> <<call>>,
              exc |-> got.exc]
        ELSE LET loaded == from_db_object(NewObject, got.row, order)
             IN  [obj |-> loaded.obj, table |-> table, calls |-> <<call>>,
                  exc |-> loaded.exc]

\* A mutant of create: the guard looks for id among the changes.
createGuardOnChanges(o, table, newid, order) ==
    IF "id" \in o.changed
    THEN [obj |-> o, table |-> table, calls |-> <<>>, exc |-> "ActionError"]
    ELSE LET updates == cinder_obj_get_changes(o)
             made == backup_create(table, updates, newid)
             call == [op |-> "backup_create", id |-> "", values |-> updates,
                      admin |-> o.admin]
             loaded == from_db_object(o, made.row, order)
         IN  IF made.exc # ""
             THEN [obj |-> o, table |-> table, calls |-> <<call>>,
                   exc |-> made.exc]
             ELSE [obj |-> loaded.obj, table |-> made.table,
                   calls |-> <<call>>, exc |-> loaded.exc]

\* A mutant of create: only the id is taken from the row returned.
createTakesIdOnly(o, table, newid, order) ==
    IF obj_attr_is_set(o, "id")
    THEN [obj |-> o, table |-> table, calls |-> <<>>, exc |-> "ActionError"]
    ELSE LET updates == cinder_obj_get_changes(o)
             made == backup_create(table, updates, newid)
             call == [op |-> "backup_create", id |-> "", values |-> updates,
                      admin |-> o.admin]
         IN  IF made.exc # ""
             THEN [obj |-> o, table |-> table, calls |-> <<call>>,
                   exc |-> made.exc]
             ELSE [obj |-> obj_reset_changes(SetItem(o, "id",
                                                     made.row["id"])),
                   table |-> made.table, calls |-> <<call>>, exc |-> ""]

\* A mutant of create: the guard on id is missing.
createUnguarded(o, table, newid, order) ==
    LET updates == cinder_obj_get_changes(o)
        made == backup_create(table, updates, newid)
        call == [op |-> "backup_create", id |-> "", values |-> updates,
                 admin |-> o.admin]
        loaded == from_db_object(o, made.row, order)
    IN  IF made.exc # ""
        THEN [obj |-> o, table |-> table, calls |-> <<call>>,
              exc |-> made.exc]
        ELSE [obj |-> loaded.obj, table |-> made.table, calls |-> <<call>>,
              exc |-> loaded.exc]

\* Backup.create(self)
create(o, table, newid, order) ==
    IF obj_attr_is_set(o, "id")
    THEN [obj |-> o, table |-> table, calls |-> <<>>, exc |-> "ActionError"]
    ELSE LET updates == cinder_obj_get_changes(o)
             made == backup_create(table, updates, newid)
             call == [op |-> "backup_create", id |-> "", values |-> updates,
                      admin |-> o.admin]
             loaded == from_db_object(o, made.row, order)
         IN  IF made.exc # ""
             THEN [obj |-> o, table |-> table, calls |-> <<call>>,
                   exc |-> made.exc]
             ELSE [obj |-> loaded.obj, table |-> made.table,
                   calls |-> <<call>>, exc |-> loaded.exc]

\* A mutant of save: the changes are reset whether or not the update
\* returns.
saveResetsAlways(o, table) ==
    LET updates == cinder_obj_get_changes(o)
    IN  IF DOMAIN updates = {}
        THEN [obj |-> obj_reset_changes(o), table |-> table, calls |-> <<>>,
              exc |-> ""]
        ELSE IF ~obj_attr_is_set(o, "id")
        THEN [obj |-> o, table |-> table, calls |-> <<>>,
              exc |-> "NotImplementedError"]
        ELSE LET done == backup_update(table, Key(o.val["id"]), updates)
                 call == [op |-> "backup_update", id |-> Key(o.val["id"]),
                          values |-> updates, admin |-> o.admin]
             IN  [obj |-> obj_reset_changes(o), table |-> done.table,
                  calls |-> <<call>>, exc |-> done.exc]

\* A mutant of save: every field that is set is sent, not only the changes.
saveAllFields(o, table) ==
    IF o.changed = {}
    THEN [obj |-> obj_reset_changes(o), table |-> table, calls |-> <<>>,
          exc |-> ""]
    ELSE IF ~obj_attr_is_set(o, "id")
    THEN [obj |-> o, table |-> table, calls |-> <<>>,
          exc |-> "NotImplementedError"]
    ELSE LET done == backup_update(table, Key(o.val["id"]), o.val)
             call == [op |-> "backup_update", id |-> Key(o.val["id"]),
                      values |-> o.val, admin |-> o.admin]
         IN  IF done.exc # ""
             THEN [obj |-> o, table |-> table, calls |-> <<call>>,
                   exc |-> done.exc]
             ELSE [obj |-> obj_reset_changes(o), table |-> done.table,
                   calls |-> <<call>>, exc |-> ""]

\* Backup.save(self).  Reading self.id when id was never assigned raises
\* (the base class cannot load the attribute) before any storage call.
save(o, table) ==
    LET updates == cinder_obj_get_changes(o)
    IN  IF DOMAIN updates = {}
        THEN [obj |-> obj_reset_changes(o), table |-> table, calls |-> <<>>,
              exc |-> ""]
        ELSE IF ~obj_attr_is_set(o, "id")
        THEN [obj |-> o, table |-> table, calls |-> <<>>,
              exc |-> "NotImplementedError"]
        ELSE LET done == backup_update(table, Key(o.val["id"]), updates)
                 call == [op |-> "backup_update", id |-> Key(o.val["id"]),
                          values |-> updates, admin |-> o.admin]
             IN  IF done.exc # ""
                 THEN [obj |-> o, table |-> table, calls |-> <<call>>,
                       exc |-> done.exc]
                 ELSE [obj |-> obj_reset_changes(o), table |-> done.table,
                       calls |-> <<call>>, exc |-> ""]

\* A mutant of destroy: an object whose row was deleted forgets its id and
\* its changes.
destroyForgets(o, table) ==
    IF ~obj_attr_is_set(o, "id")
    THEN [obj |-> o, table |-> table, calls |-> <<>>,
          exc |-> "NotImplementedError"]
    ELSE LET done == backup_destroy(table, Key(o.val["id"]))
             call == [op |-> "backup_destroy", id |-> Key(o.val["id"]),
                      values |-> EmptyMap, admin |-> TRUE]
         IN  [obj |-> IF done.exc # "" THEN o
                      ELSE [o EXCEPT
                              !.val = [f \in DOMAIN o.val \ {"id"} |->
                                          o.val[f]],
                              !.changed = {}],
              table |-> done.table, calls |-> <<call>>, exc |-> done.exc]

\* A mutant of destroy: the context is elevated by hand and restored only
\* after a delete that returns.
destroyRestoresOnSuccess(o, table) ==
    IF ~obj_attr_is_set(o, "id")
    THEN [obj |-> [o EXCEPT !.admin = TRUE], table |-> table, calls |-> <<>>,
          exc |-> "NotImplementedError"]
    ELSE LET done == backup_destroy(table, Key(o.val["id"]))
             call == [op |-> "backup_destroy", id |-> Key(o.val["id"]),
                      values |-> EmptyMap, admin |-> TRUE]
         IN  [obj |-> [o EXCEPT !.admin = IF done.exc = "" THEN @ ELSE TRUE],
              table |-> done.table, calls |-> <<call>>, exc |-> done.exc]

\* Backup.destroy(self): the delete is issued with the context elevated to
\* admin, and the caller's context is restored when the scope is left.
destroy(o, table) ==
    IF ~obj_attr_is_set(o, "id")
    THEN [obj |-> o, table |-> table, calls |-> <<>>,
          exc |-> "NotImplementedError"]
    ELSE LET elevated == [o EXCEPT !.admin = TRUE]
             done == backup_destroy(table, Key(o.val["id"]))
             call == [op |-> "backup_destroy", id |-> Key(o.val["id"]),
                      values |-> EmptyMap, admin |-> elevated.admin]
         IN  [obj |-> [elevated EXCEPT !.admin = o.admin],
              table |-> done.table, calls |-> <<call>>, exc |-> done.exc]

-----------------------------------------------------------------------------
(* BackupList: the bulk fetches.  Each yields the rows the storage returned, *)
(* the objects of the list and the exception raised.                         *)

\* base.obj_make_list(context, cls(context), objects.Backup, backups): one
\* object per row, each a fresh Backup loaded by _from_db_object, in the
\* order of the rows; a row that does not load raises.
obj_make_list(backups, order) ==
    LET items == [n \in 1..Len(backups) |->
                     from_db_object(NewObject, backups[n], order)]
    IN  IF \E n \in 1..Len(backups) : items[n].exc # ""
        THEN [rows |-> backups, objects |-> <<>>, exc |-> "ValueError"]
        ELSE [rows |-> backups,
              objects |-> [n \in 1..Len(backups) |-> items[n].obj],
              exc |-> ""]

\* BackupList.get_all(context, filters)
get_all(table, filters, listed, order) ==
    obj_make_list(backup_get_all(table, filters, listed), order)

\* BackupList.get_all_by_host(context, host)
get_all_by_host(table, host, listed, order) ==
    obj_make_list(backup_get_all_by_host(table, host, listed), order)

\* BackupList.get_all_by_project(context, project_id, filters)
get_all_by_project(table, project_id, filters, listed, order) ==
    obj_make_list(backup_get_all_by_project(table, project_id, filters,
                                            listed), order)

\* BackupList.get_all_by_volume(context, volume_id, filters)
get_all_by_volume(table, volume_id, filters, listed, order) ==
    obj_make_list(backup_get_all_by_volume(table, volume_id, filters,
                                           listed), order)

-----------------------------------------------------------------------------
(* Attribute access and the derived properties *)

\* CONF.backup_name_template % id, for the template 'backup-%s'.
backup_name_template(id) == "backup-" \o id

\* Backup.is_incremental
is_incremental(o) == Truthy(o.val["parent_id"])

\* Backup.has_dependent_backups
has_dependent_backups(o) == Truthy(o.val["num_dependent_backups"])

\* Backup.name
name(o) == backup_name_template(Key(o.val["id"]))

\* The field a derived property reads.
ReadBy(k) ==
    CASE k = "name"                  -> "id"
      [] k = "is_incremental"        -> "parent_id"
      [] k = "has_dependent_backups" -> "num_dependent_backups"
      [] OTHER                       -> k

\* Whether self[k] can be read: reading a field that was never assigned
\* raises (the base class cannot load it).
Readable(o, k) == obj_attr_is_set(o, ReadBy(k))

\* self[k], getattr(self, k), for a readable k.
GetItem(o, k) ==
    CASE k = "name"                  -> StrV(name(o))
      [] k = "is_incremental"        -> BoolV(is_incremental(o))
      [] k = "has_dependent_backups" -> BoolV(has_dependent_backups(o))
      [] OTHER                       -> o.val[k]

\* self.keys(), the keys dict.update(self) copies: the declared fields that
\* are set and every extra field.
Keys(o) == DOMAIN o.val \cup ExtraNames

-----------------------------------------------------------------------------
(* Structured text: jsonutils.dumps and jsonutils.loads                    *)
(*                                                                         *)
(* The text is a sequence of bytes.  An object is '{' (123), then its      *)
(* members key ':' (58) value separated by ',' (44), then '}' (125).  A    *)
(* key and a scalar value are one byte each: 64 plus the key's place in    *)
(* KeyTable, 96 plus the value's place in ValueTable.                      *)

KeyTable == FieldOrder \o obj_extra_fields \o <<"version", "k">>

ValueTable ==
    <<None, BoolV(FALSE), BoolV(TRUE), IntV(-1), IntV(0), IntV(1), IntV(2),
      StrV(""), StrV("a1"), StrV("b2"), StrV("u1"), StrV("p1"), StrV("v1"),
      StrV("p0"), StrV("available"), StrV("backup-a1"), StrV("backup-b2"),
      StrV("x"), StrV("1.0"), StrV("1.1")>>

IndexOf(table, x) == CHOOSE n \in 1..Len(table) : table[n] = x

KeyByte(k) == 64 + IndexOf(KeyTable, k)
ValueByte(v) == 96 + IndexOf(ValueTable, v)

IsKeyByte(b) == b > 64 /\ b <= 64 + Len(KeyTable)
IsValueByte(b) == b > 96 /\ b <= 96 + Len(ValueTable)

\* jsonutils.dumps(m) for a dict m (encoded to utf-8): the members in the
\* order of KeyTable; member j takes the bytes 4j-2 .. 4j.
dumps(m) ==
    LET ks == SelectSeq(KeyTable, LAMBDA k : k \in DOMAIN m)
    IN  IF Len(ks) = 0
        THEN <<123, 125>>
        ELSE [p \in 1..(4 * Len(ks) + 1) |->
                CASE p = 1                -> 123
                  [] p = 4 * Len(ks) + 1  -> 125
                  [] p % 4 = 2            -> KeyByte(ks[(p + 2) \div 4])
                  [] p % 4 = 3            -> 58
                  [] p % 4 = 0            -> ValueByte(m[ks[p \div 4]])
                  [] OTHER                -> 44]

\* Whether the bytes are the text of an object: Len = 4n + 1 for n >= 1
\* members, or the two bytes of the empty object.
IsObjectText(bs) ==
    /\ Len(bs) >= 2
    /\ bs[1] = 123
    /\ bs[Len(bs)] = 125
    /\ \/ Len(bs) = 2
       \/ /\ (Len(bs) - 1) % 4 = 0
          /\ \A j \in 1..((Len(bs) - 1) \div 4) :
                /\ IsKeyByte(bs[4 * j - 2])
                /\ bs[4 * j - 1] = 58
                /\ IsValueByte(bs[4 * j])
                /\ (4 * j + 1 < Len(bs) => bs[4 * j + 1] = 44)

\* The dict an object's text denotes; of two members with one key the later
\* one counts.
ObjectOf(bs) ==
    LET n == (Len(bs) - 1) \div 4
        keyAt(j) == KeyTable[bs[4 * j - 2] - 64]
        last(k) == CHOOSE j \in 1..n :
                      /\ keyAt(j) = k
                      /\ \A h \in (j + 1)..n : keyAt(h) # k
    IN  [k \in {keyAt(j) : j \in 1..n} |-> ValueTable[bs[4 * last(k)] - 96]]

\* jsonutils.loads(bs): the value the text denotes (an object or a scalar),
\* or ValueError for bytes that are no text (a byte above 127 is no utf-8
\* here) or no well-formed text.
loads(bs) ==
    IF \E j \in 1..Len(bs) : bs[j] > 127
    THEN [exc |-> "ValueError", value |-> None]
    ELSE IF Len(bs) = 1 /\ IsValueByte(bs[1])
    THEN [exc |-> "", value |-> ValueTable[bs[1] - 96]]
    ELSE IF IsObjectText(bs)
    THEN [exc |-> "", value |-> ObjectOf(bs)]
    ELSE [exc |-> "ValueError", value |-> None]

-----------------------------------------------------------------------------
(* Base64: base64.encodestring and base64.decodestring                     *)
(*                                                                         *)
(* A character of a token is its place 0..63 in the base64 alphabet, 64    *)
(* for the pad '=', 65 for a newline and 66 for any other character that   *)
(* is not of the alphabet.                                                 *)

PadChar == 64
NewlineChar == 65
OtherChar == 66

\* binascii.b2a_base64 without its newline: three bytes give four
\* characters; a last group of one or two bytes is padded.  Byte(bs, n) is
\* byte n, 0 past the end.
Byte(bs, n) == IF n <= Len(bs) THEN bs[n] ELSE 0

b2a_base64(bs) ==
    [p \in 1..(4 * ((Len(bs) + 2) \div 3)) |->
        LET g == 3 * ((p - 1) \div 4)
        IN  CASE p % 4 = 1 -> Byte(bs, g + 1) \div 4
              [] p % 4 = 2 -> (Byte(bs, g + 1) % 4) * 16
                               + Byte(bs, g + 2) \div 16
              [] p % 4 = 3 -> IF g + 2 > Len(bs) THEN PadChar
                              ELSE (Byte(bs, g + 2) % 16) * 4
                                   + Byte(bs, g + 3) \div 64
              [] OTHER     -> IF g + 3 > Len(bs) THEN PadChar
                              ELSE Byte(bs, g + 3) % 64]

\* The bytes of a line of encodestring's output.
MAXBINSIZE == 57

\* base64.encodestring(bs): each run of MAXBINSIZE bytes is encoded on a
\* line of its own, ended by a newline.
RECURSIVE encodestring(_)
encodestring(bs) ==
    IF Len(bs) = 0 THEN <<>>
    ELSE IF Len(bs) <= MAXBINSIZE
    THEN b2a_base64(bs) \o <<NewlineChar>>
    ELSE b2a_base64(SubSeq(bs, 1, MAXBINSIZE)) \o <<NewlineChar>>
         \o encodestring(SubSeq(bs, MAXBINSIZE + 1, Len(bs)))

\* binascii.a2b_base64 reads the token character by character, counting in
\* quad_pos the characters of the alphabet read so far (modulo 4).
\* Characters outside the alphabet are skipped.  A pad is skipped too unless
\* padding belongs there: quad_pos is 3, or it is 2 and the next character
\* that is of the alphabet or a pad is a pad; such a pad ends the input.
DataBefore(tok, p) == Cardinality({q \in 1..(p - 1) : tok[q] < PadChar})

PadEndsInput(tok, p) ==
    /\ tok[p] = PadChar
    /\ \/ DataBefore(tok, p) % 4 = 3
       \/ /\ DataBefore(tok, p) % 4 = 2
          /\ \E q \in (p + 1)..Len(tok) :
                /\ tok[q] = PadChar
                /\ \A r \in (p + 1)..(q - 1) : tok[r] > PadChar

\* Every group of four characters read gives three bytes, a group of two or
\* three gives one or two; at the end of a token that no pad ended, bits
\* left over that make no byte are an error ("Incorrect padding").
a2b_base64(tok) ==
    LET ends == {p \in 1..Len(tok) : PadEndsInput(tok, p)}
        stop == IF ends = {}
                THEN Len(tok) + 1
                ELSE CHOOSE p \in ends : \A q \in ends : p <= q
        data == SelectSeq(SubSeq(tok, 1, stop - 1), LAMBDA c : c < PadChar)
        char(n) == IF n <= Len(data) THEN data[n] ELSE 0
    IN  IF ends = {} /\ Len(data) % 4 # 0
        THEN [exc |-> "binascii.Error", bytes |-> <<>>]
        ELSE [exc |-> "",
              bytes |-> [j \in 1..((6 * Len(data)) \div 8) |->
                           LET g == 4 * ((j - 1) \div 3)
                           IN  CASE j % 3 = 1 -> char(g + 1) * 4
                                                 + char(g + 2) \div 16
                                 [] j % 3 = 2 -> (char(g + 2) % 16) * 16
                                                 + char(g + 3) \div 4
                                 [] OTHER     -> (char(g + 3) % 4) * 64
                                                 + char(g + 4)]]

\* base64.decodestring(tok)
decodestring(tok) == a2b_base64(tok)

-----------------------------------------------------------------------------
(* The record codec *)

\* A mutant of decode_record: only the decoding error is handled.
decode_record_decode_only(backup_url) ==
    LET raw == decodestring(backup_url)
    IN  IF raw.exc = "binascii.Error"
        THEN [exc |-> "InvalidInput", msg |-> "Can't decode backup record.",
              value |-> None]
        ELSE [exc |-> loads(raw.bytes).exc, msg |-> "",
              value |-> loads(raw.bytes).value]

\* Backup.decode_record(backup_url): the value decoded, or InvalidInput with
\* the message of the handler that caught the error.
decode_record(backup_url) ==
    LET raw == decodestring(backup_url)
    IN  IF raw.exc = "binascii.Error"
        THEN [exc |-> "InvalidInput", msg |-> "Can't decode backup record.",
              value |-> None]
        ELSE IF loads(raw.bytes).exc = "ValueError"
        THEN [exc |-> "InvalidInput", msg |-> "Can't parse backup record.",
              value |-> None]
        ELSE [exc |-> "", msg |-> "", value |-> loads(raw.bytes).value]

\* Backup.encode_record(self, **kwargs): the items of the object are copied
\* over the keyword arguments, and the result is dumped and encoded.
encode_record(o, kwargs) ==
    IF \E k \in Keys(o) : ~Readable(o, k)
    THEN [exc |-> "NotImplementedError", token |-> <<>>]
    ELSE [exc |-> "",
          token |-> encodestring(
                       dumps(Update(kwargs,
                                    [k \in Keys(o) |-> GetItem(o, k)])))]

-----------------------------------------------------------------------------
(* Version compatibility *)

\* utils.convert_version_to_tuple(version_str)
convert_version_to_tuple(version_str) ==
    CASE version_str = "1.0" -> <<1, 0>>
      [] version_str = "1.1" -> <<1, 1>>
      [] version_str = "1.2" -> <<1, 2>>

\* The base class's obj_make_compatible: it converts the fields that hold
\* objects, and Backup declares none.
super_obj_make_compatible(o, primitive, target_version) == primitive

\* A mutant of obj_make_compatible: the comparison of versions is inverted,
\* the field added in 1.1 is dropped for the targets that know it.
obj_make_compatible_inverted(o, primitive, target_version) ==
    LET drop(m) == [k \in DOMAIN m \ {"num_dependent_backups"} |-> m[k]]
        newer == convert_version_to_tuple(target_version)[2] >= 1
    IN  [obj |-> o,
         primitive |-> IF newer THEN drop(primitive) ELSE primitive]

\* A mutant of obj_make_compatible: the field added in 1.1 is dropped from
\* the primitive and from the object itself.
obj_make_compatible_on_self(o, primitive, target_version) ==
    LET drop(m) == [k \in DOMAIN m \ {"num_dependent_backups"} |-> m[k]]
        older == convert_version_to_tuple(target_version)[2] < 1
    IN  [obj |-> IF older THEN [o EXCEPT !.val = drop(@)] ELSE o,
         primitive |-> IF older THEN drop(primitive) ELSE primitive]

\* Backup.obj_make_compatible(self, primitive, target_version): the base
\* class's conversion, then the target version as a tuple, which nothing
\* reads.  Yields the object and the primitive as the call leaves them.
obj_make_compatible(o, primitive, target_version) ==
    LET converted == super_obj_make_compatible(o, primitive, target_version)
        target == convert_version_to_tuple(target_version)
    IN  [obj |-> o, primitive |-> converted]

-----------------------------------------------------------------------------
(* Bounds and inputs *)

\* Integer field values the caller assigns range over 0..MaxInt.
MaxInt == 0

\* The ids the storage generates and the caller asks for.
Ids == {"a1", "b2"}

\* The row stored before the program starts: an incremental backup whose
\* size is null and whose object_count column is missing from the row.
StoredRow ==
    [f \in FieldNames \ {"object_count"} |->
        CASE f = "id"                    -> StrV("b2")
          [] f = "user_id"               -> StrV("u1")
          [] f = "project_id"            -> StrV("p1")
          [] f = "volume_id"             -> StrV("v1")
          [] f = "parent_id"             -> StrV("p0")
          [] f = "status"                -> StrV("available")
          [] f = "num_dependent_backups" -> IntV(1)
          [] OTHER                       -> None]

InitialTable == [k \in {"b2"} |-> StoredRow]

\* The keyword arguments the caller constructs an object with: none, or
\* the owner and the source volume of the backup.
NewChoices ==
    {EmptyMap,
     [f \in {"user_id", "project_id", "volume_id"} |->
        CASE f = "user_id"    -> StrV("u1")
          [] f = "project_id" -> StrV("p1")
          [] f = "volume_id"  -> StrV("v1")]}

\* The assignments the caller makes: field and value.  The last one is an
\* assignment the field refuses.
SetChoices ==
    {<<"id", StrV("a1")>>, <<"parent_id", StrV("p0")>>}
    \cup {<<"size", IntV(n)>> : n \in 0..MaxInt}
    \cup {<<"size", None>>}

NoArg == <<>>

Outcome(op, i, arg, exc) == [op |-> op, inst |-> i, arg |-> arg, exc |-> exc]

NoHistory == [assigned |-> {}, created |-> FALSE]

\* Nothing in transit.
NoWire ==
    [stage |-> "none", token |-> <<>>, extras |-> EmptyMap, intact |-> FALSE,
     damage |-> "", twice |-> FALSE,
     out |-> [exc |-> "", msg |-> "", value |-> None],
     primitive |-> EmptyMap, target |-> ""]

-----------------------------------------------------------------------------
(* The actions: one per operation a caller invokes on instance i *)

\* cls(context, **kwargs): the caller constructs a fresh object; each
\* keyword argument is assigned as a field.
RECURSIVE Construct(_, _)
Construct(o, kwargs) ==
    IF DOMAIN kwargs = {}
    THEN o
    ELSE LET k == CHOOSE x \in DOMAIN kwargs : TRUE
         IN  Construct(SetItem(o, k, kwargs[k]),
                       [x \in DOMAIN kwargs \ {k} |-> kwargs[x]])

New(i) ==
    \E kwargs \in NewChoices :
        /\ objs' = [objs EXCEPT ![i] = Construct(NewObject, kwargs)]
        /\ hist' = [hist EXCEPT ![i] = [assigned |-> DOMAIN kwargs,
                                        created |-> FALSE]]
        /\ calls' = <<>>
        /\ result' = Outcome("new", i, NoArg, "")
        /\ UNCHANGED <<db, issued, wire>>

\* backup = Backup.get_by_id(context, id): the caller's variable is bound to
\* the object returned; it keeps its object when the call raises.
Fetch(i) ==
    \E id \in Ids, order \in IterationOrders :
        LET r == get_by_id(db, id, order)
        IN  /\ objs' = [objs EXCEPT ![i] = IF r.exc = "" THEN r.obj ELSE @]
            /\ hist' = [hist EXCEPT ![i] = IF r.exc = "" THEN NoHistory ELSE @]
            /\ db' = r.table
            /\ calls' = r.calls
            /\ result' = Outcome("get_by_id", i, <<id>>, r.exc)
            /\ UNCHANGED <<issued, wire>>

\* backup[name] = value (backup.name = value) for the field and value c; the
\* outcome records whether the field already had the value.
SetTo(i, c) ==
    LET ok == Accepts(c[1], c[2])
        same == obj_attr_is_set(objs[i], c[1]) /\ objs[i].val[c[1]] = c[2]
    IN  /\ objs' = [objs EXCEPT ![i] = IF ok THEN SetItem(@, c[1], c[2])
                                       ELSE @]
        /\ hist' = [hist EXCEPT ![i].assigned = IF ok THEN @ \cup {c[1]}
                                                ELSE @]
        /\ calls' = <<>>
        /\ result' = Outcome("set", i, <<c[1], c[2], same>>,
                             IF ok THEN "" ELSE "ValueError")
        /\ UNCHANGED <<db, issued, wire>>

Set(i) == \E c \in SetChoices : SetTo(i, c)

\* backup.obj_reset_changes()
ResetChanges(i) ==
    /\ objs' = [objs EXCEPT ![i] = obj_reset_changes(@)]
    /\ hist' = [hist EXCEPT ![i].assigned = {}]
    /\ calls' = <<>>
    /\ result' = Outcome("obj_reset_changes", i, NoArg, "")
    /\ UNCHANGED <<db, issued, wire>>

\* backup.create()
Create(i) ==
    \E newid \in (IF obj_attr_is_set(objs[i], "id") THEN {""}
                  ELSE (Ids \ issued) \cup {Unavailable}),
       order \in IterationOrders :
        LET r == create(objs[i], db, newid, order)
        IN  /\ objs' = [objs EXCEPT ![i] = r.obj]
            /\ issued' = issued \cup DOMAIN r.table
            /\ hist' = [hist EXCEPT ![i] = IF r.exc = ""
                                           THEN [assigned |-> {},
                                                 created |-> TRUE]
                                           ELSE @]
            /\ db' = r.table
            /\ calls' = r.calls
            /\ result' = Outcome("create", i, NoArg, r.exc)
            /\ UNCHANGED wire

\* backup.save()
Save(i) ==
    LET r == save(objs[i], db)
    IN  /\ objs' = [objs EXCEPT ![i] = r.obj]
        /\ hist' = [hist EXCEPT ![i].assigned = IF r.exc = "" THEN {} ELSE @]
        /\ db' = r.table
        /\ calls' = r.calls
        /\ result' = Outcome("save", i, NoArg, r.exc)
        /\ UNCHANGED <<issued, wire>>

\* backup.destroy()
Destroy(i) ==
    LET r == destroy(objs[i], db)
    IN  /\ objs' = [objs EXCEPT ![i] = r.obj]
        /\ db' = r.table
        /\ calls' = r.calls
        /\ result' = Outcome("destroy", i, NoArg, r.exc)
        /\ UNCHANGED <<hist, issued, wire>>

Init ==
    /\ objs = [i \in {1} |-> NewObject]
    /\ hist = [i \in {1} |-> NoHistory]
    /\ db = InitialTable
    /\ issued = DOMAIN InitialTable
    /\ calls = <<>>
    /\ result = Outcome("init", 0, NoArg, "")
    /\ wire = NoWire

Next ==
    \/ \E i \in DOMAIN objs : New(i)
    \/ \E i \in DOMAIN objs : Fetch(i)
    \/ \E i \in DOMAIN objs : Set(i)
    \/ \E i \in DOMAIN objs : ResetChanges(i)
    \/ \E i \in DOMAIN objs : Create(i)
    \/ \E i \in DOMAIN objs : Save(i)
    \/ \E i \in DOMAIN objs : Destroy(i)

Spec == Init /\ [][Next]_vars

-----------------------------------------------------------------------------
(* Tokens and primitives in transit *)

\* Tokens received from outside have at most MaxTokenLen characters.
MaxTokenLen == 4

\* Their characters: 'e', '0', '3' ("e30=" is the token of the empty
\* object), the pad and a character outside the alphabet.
TokenAlphabet == {30, 52, 55, PadChar, OtherChar}

RECURSIVE TokensUpTo(_)
TokensUpTo(n) ==
    IF n = 0
    THEN {<<>>}
    ELSE LET shorter == TokensUpTo(n - 1)
         IN  shorter \cup {Append(t, c) : t \in shorter, c \in TokenAlphabet}

\* The keyword arguments encode_record is called with.
ExtrasChoices ==
    {EmptyMap,
     [k \in {"version"} |-> StrV("1.1")],
     [k \in {"k"} |-> StrV("x")],
     [k \in {"id"} |-> StrV("x")],
     [k \in {"name"} |-> StrV("x")]}

TargetVersions == {"1.0", "1.1", "1.2"}

\* A second stored row: a full backup nothing depends on.
OtherRow ==
    [f \in FieldNames |->
        CASE f = "id"                    -> StrV("a1")
          [] f = "user_id"               -> StrV("u1")
          [] f = "project_id"            -> StrV("p1")
          [] f = "volume_id"             -> StrV("v1")
          [] f = "status"                -> StrV("available")
          [] f = "size"                  -> IntV(1)
          [] f = "object_count"          -> IntV(2)
          [] OTHER                       -> None]

\* The objects whose encoding and primitives are examined: two loaded from
\* rows, one constructed by the caller and given an id, one just constructed.
WireObjects ==
    {from_db_object(NewObject, StoredRow, FieldOrder).obj,
     from_db_object(NewObject, OtherRow, FieldOrder).obj,
     SetItem(Construct(NewObject,
                       [f \in {"volume_id"} |-> StrV("v1")]),
             "id", StrV("a1")),
     NewObject}

\* token = backup.encode_record(**kwargs)
Encode(i) ==
    \E kwargs \in ExtrasChoices :
        LET r == encode_record(objs[i], kwargs)
        IN  /\ wire.stage = "none"
            /\ wire' = [NoWire EXCEPT !.stage = "token", !.token = r.token,
                                      !.extras = kwargs,
                                      !.intact = (r.exc = "")]
            /\ result' = Outcome("encode_record", i, NoArg, r.exc)
            /\ UNCHANGED <<objs, db, issued, calls, hist>>

\* A token arrives from outside, when nothing is in transit.
Receive ==
    \E tok \in TokensUpTo(MaxTokenLen) :
        /\ wire.stage = "none"
        /\ wire' = [NoWire EXCEPT !.stage = "token", !.token = tok]
        /\ result' = Outcome("receive", 0, NoArg, "")
        /\ UNCHANGED <<objs, db, issued, calls, hist>>

\* The token loses its last character in transit.
Truncate ==
    /\ wire.stage = "token"
    /\ wire.damage # "corrupted"
    /\ Len(wire.token) > 0
    /\ wire' = [wire EXCEPT !.token = SubSeq(@, 1, Len(@) - 1),
                            !.intact = FALSE, !.damage = "truncated"]
    /\ result' = Outcome("truncate", 0, NoArg, "")
    /\ UNCHANGED <<objs, db, issued, calls, hist>>

\* A character outside the alphabet gets into an encoded token in transit.
Corrupt ==
    /\ wire.stage = "token"
    /\ wire.intact
    /\ \E p \in 0..Len(wire.token) :
          wire' = [wire EXCEPT !.token = SubSeq(@, 1, p) \o <<OtherChar>>
                                         \o SubSeq(@, p + 1, Len(@)),
                               !.intact = FALSE, !.damage = "corrupted"]
    /\ result' = Outcome("corrupt", 0, NoArg, "")
    /\ UNCHANGED <<objs, db, issued, calls, hist>>

\* Backup.decode_record(token)
Decode ==
    /\ wire.stage = "token"
    /\ LET r == decode_record(wire.token)
       IN  /\ wire' = [wire EXCEPT !.stage = "decoded", !.out = r]
           /\ result' = Outcome("decode_record", 0, NoArg, r.exc)
    /\ UNCHANGED <<objs, db, issued, calls, hist>>

\* The primitive of the object: its set fields and their values.
ToPrimitive(i) ==
    /\ wire.stage = "none"
    /\ wire' = [NoWire EXCEPT !.stage = "primitive", !.primitive = objs[i].val]
    /\ result' = Outcome("obj_to_primitive", i, NoArg, "")
    /\ UNCHANGED <<objs, db, issued, calls, hist>>

\* backup.obj_make_compatible(primitive, target_version)
MakeCompatible(i) ==
    /\ wire.stage \in {"primitive", "compatible"}
    /\ \E target_version \in TargetVersions :
          LET r == obj_make_compatible(objs[i], wire.primitive, target_version)
          IN  /\ objs' = [objs EXCEPT ![i] = r.obj]
              /\ wire' = [wire EXCEPT !.stage = "compatible",
                                      !.primitive = r.primitive,
                                      !.target = target_version,
                                      !.twice = (wire.stage = "compatible"
                                                 /\ wire.target
                                                       = target_version)]
              /\ result' = Outcome("obj_make_compatible", i,
                                   <<target_version>>, "")
    /\ UNCHANGED <<db, issued, calls, hist>>

\* What was in transit is dropped.
Clear ==
    /\ wire.stage # "none"
    /\ wire' = NoWire
    /\ result' = Outcome("clear", 0, NoArg, "")
    /\ UNCHANGED <<objs, db, issued, calls, hist>>

InitWire ==
    /\ objs \in {[i \in {1} |-> o] : o \in WireObjects}
    /\ hist = [i \in {1} |-> NoHistory]
    /\ db = InitialTable
    /\ issued = DOMAIN InitialTable
    /\ calls = <<>>
    /\ result = Outcome("init", 0, NoArg, "")
    /\ wire = NoWire

NextWire ==
    \/ \E i \in DOMAIN objs : Encode(i)
    \/ Receive
    \/ Truncate
    \/ Corrupt
    \/ Decode
    \/ Clear
    \/ \E i \in DOMAIN objs : ToPrimitive(i)
    \/ \E i \in DOMAIN objs : MakeCompatible(i)

SpecWire == InitWire /\ [][NextWire]_vars

-----------------------------------------------------------------------------
(* The derived properties read by a caller *)

\* The counts a caller assigns to num_dependent_backups range over
\* -MaxCount..MaxCount.
MaxCount == 1

\* The assignments to the fields the derived properties read.
DerivedChoices ==
    {<<"parent_id", None>>, <<"parent_id", StrV("")>>,
     <<"parent_id", StrV("p0")>>}
    \cup {<<"num_dependent_backups", IntV(n)>> : n \in (0 - MaxCount)..MaxCount}

SetDerivedInput(i) == \E c \in DerivedChoices : SetTo(i, c)

\* backup.is_incremental and backup.has_dependent_backups are read; reading
\* one whose field was never assigned raises.
ReadDerived(i) ==
    LET o == objs[i]
        ok == Readable(o, "is_incremental")
              /\ Readable(o, "has_dependent_backups")
    IN  /\ result' = Outcome("derived", i,
                             IF ok THEN <<is_incremental(o),
                                          has_dependent_backups(o)>>
                             ELSE NoArg,
                             IF ok THEN "" ELSE "NotImplementedError")
        /\ calls' = <<>>
        /\ UNCHANGED <<objs, hist, db, issued, wire>>

NextDerived ==
    \/ \E i \in DOMAIN objs : New(i)
    \/ \E i \in DOMAIN objs : SetDerivedInput(i)
    \/ \E i \in DOMAIN objs : ReadDerived(i)
    \/ \E i \in DOMAIN objs : Create(i)
    \/ \E i \in DOMAIN objs : Save(i)

SpecDerived == Init /\ [][NextDerived]_vars

-----------------------------------------------------------------------------
(* Bulk fetches, and the operations of a caller on the objects of a list *)

\* A third stored row, of another project and volume, whose user_id is null.
OrphanRow ==
    [f \in FieldNames |->
        CASE f = "id"         -> StrV("c3")
          [] f = "project_id" -> StrV("p2")
          [] f = "volume_id"  -> StrV("v2")
          [] f = "status"     -> StrV("error")
          [] OTHER            -> None]

\* The tables the bulk fetches start from.
ListTables ==
    {InitialTable,
     [k \in {"a1", "b2"} |->
        IF k = "a1" THEN Put(OtherRow, "host", StrV("h1")) ELSE StoredRow],
     [k \in {"a1", "b2", "c3"} |->
        CASE k = "a1" -> Put(OtherRow, "host", StrV("h1"))
          [] k = "b2" -> StoredRow
          [] OTHER    -> OrphanRow]}

\* The orders the storage may return the rows of the table in.
Listings(table) ==
    {l \in [1..Cardinality(DOMAIN table) -> DOMAIN table] :
        \A a, b \in DOMAIN l : a # b => l[a] # l[b]}

\* The arguments of the bulk fetches.
FilterChoices == {EmptyMap, [k \in {"status"} |-> StrV("available")]}

HostChoices == {StrV("h1")}

ProjectChoices == {StrV("p1"), StrV("p2")}

VolumeChoices == {StrV("v1")}

\* The assignments a caller makes to an object of a list.
ListSetChoices == {<<"id", StrV("a1")>>}

\* The caller's variables are bound to the objects of the list returned; they
\* keep their objects when the fetch raises.  The outcome records the rows
\* the storage returned.
Listed(op, dbop, values, r) ==
    /\ objs' = IF r.exc = "" THEN r.objects ELSE objs
    /\ hist' = IF r.exc = "" THEN [n \in DOMAIN r.objects |-> NoHistory]
               ELSE hist
    /\ calls' = <<[op |-> dbop, id |-> "", values |-> values,
                   admin |-> FALSE]>>
    /\ result' = Outcome(op, 0, <<r.rows>>, r.exc)
    /\ UNCHANGED <<db, issued, wire>>

\* BackupList.get_all(context, filters)
GetAll ==
    \E filters \in FilterChoices, listed \in Listings(db),
       order \in IterationOrders :
        Listed("get_all", "backup_get_all", filters,
               get_all(db, filters, listed, order))

\* BackupList.get_all_by_host(context, host)
GetAllByHost ==
    \E host \in HostChoices, listed \in Listings(db),
       order \in IterationOrders :
        Listed("get_all_by_host", "backup_get_all_by_host",
               [k \in {"host"} |-> host],
               get_all_by_host(db, host, listed, order))

\* BackupList.get_all_by_project(context, project_id, filters)
GetAllByProject ==
    \E project_id \in ProjectChoices, filters \in FilterChoices,
       listed \in Listings(db), order \in IterationOrders :
        Listed("get_all_by_project", "backup_get_all_by_project",
               Put(filters, "project_id", project_id),
               get_all_by_project(db, project_id, filters, listed, order))

\* BackupList.get_all_by_volume(context, volume_id, filters)
GetAllByVolume ==
    \E volume_id \in VolumeChoices, filters \in FilterChoices,
       listed \in Listings(db), order \in IterationOrders :
        Listed("get_all_by_volume", "backup_get_all_by_volume",
               Put(filters, "volume_id", volume_id),
               get_all_by_volume(db, volume_id, filters, listed, order))

SetListed(i) == \E c \in ListSetChoices : SetTo(i, c)

InitList ==
    /\ objs = [i \in {1} |-> NewObject]
    /\ hist = [i \in {1} |-> NoHistory]
    /\ db \in ListTables
    /\ issued = DOMAIN db
    /\ calls = <<>>
    /\ result = Outcome("init", 0, NoArg, "")
    /\ wire = NoWire

NextList ==
    \/ GetAll
    \/ GetAllByHost
    \/ GetAllByProject
    \/ GetAllByVolume
    \/ \E i \in DOMAIN objs : New(i)
    \/ \E i \in DOMAIN objs : Fetch(i)
    \/ \E i \in DOMAIN objs : SetListed(i)
    \/ \E i \in DOMAIN objs : Create(i)

SpecList == InitList /\ [][NextList]_vars

-----------------------------------------------------------------------------
(* Two objects of one row, saved in any order *)

\* The assignments caller i makes: each caller has its own parent and size.
PairChoices(i) ==
    {<<"parent_id", StrV(IF i = 1 THEN "q1" ELSE "q2")>>, <<"size", IntV(i)>>}

SetPair(i) == \E c \in PairChoices(i) : SetTo(i, c)

InitPair ==
    /\ objs = [i \in {1, 2} |-> NewObject]
    /\ hist = [i \in {1, 2} |-> NoHistory]
    /\ db = InitialTable
    /\ issued = DOMAIN InitialTable
    /\ calls = <<>>
    /\ result = Outcome("init", 0, NoArg, "")
    /\ wire = NoWire

NextPair ==
    \/ \E i \in DOMAIN objs : Fetch(i)
    \/ \E i \in DOMAIN objs : SetPair(i)
    \/ \E i \in DOMAIN objs : Save(i)

SpecPair == InitPair /\ [][NextPair]_vars

-----------------------------------------------------------------------------
(* Claims about the lifecycle operations *)

\* The step is operation op on instance i.
Did(op, i) == result'.op = op /\ result'.inst = i

\* The changes of an object as a mapping: changed field -> current value.
ChangeSet(o) == [f \in o.changed |-> o.val[f]]

\* C1: a create on an object on which create has already succeeded raises
\* ActionError, issues no storage call and leaves the object's field values
\* and changes, and the table, as they were.
C1_SecondCreateRefused ==
    [][\A i \in DOMAIN objs :
          (hist[i].created /\ Did("create", i)) =>
              /\ result'.exc = "ActionError"
              /\ calls' = <<>>
              /\ objs'[i] = objs[i]
              /\ db' = db]_vars

\* A second create on a created object has been refused.
C1_Witness ==
    /\ result.op = "create"
    /\ result.exc = "ActionError"
    /\ hist[result.inst].created

\* C2: in every state the changes of an object are exactly the fields the
\* caller assigned since the last load, successful create or successful save
\* (none right after one of these).
C2_ChangesAreCallerAssignments ==
    \A i \in DOMAIN objs : objs[i].changed = hist[i].assigned

\* C3: a save with changes, on an object that has an id, issues exactly one
\* update keyed by the id whose values are exactly the changes; a save
\* without changes issues no call and returns; whenever save returns the
\* changes are empty.
C3_SaveSendsExactlyTheChanges ==
    [][\A i \in DOMAIN objs :
          Did("save", i) =>
              /\ (objs[i].changed = {} => calls' = <<>> /\ result'.exc = "")
              /\ (objs[i].changed # {} /\ "id" \in DOMAIN objs[i].val =>
                    /\ Len(calls') = 1
                    /\ calls'[1].op = "backup_update"
                    /\ StrV(calls'[1].id) = objs[i].val["id"]
                    /\ calls'[1].values = ChangeSet(objs[i]))
              /\ (result'.exc = "" => objs'[i].changed = {})]_vars

\* A save has sent a non-empty delta and returned.
C3_Witness ==
    /\ result.op = "save"
    /\ result.exc = ""
    /\ Len(calls) = 1
    /\ DOMAIN calls[1].values # {}
    /\ objs[result.inst].changed = {}

\* C4: after an assignment backup[f] = v that the field accepts, the changes
\* map f to v, also when f already had the value v; after obj_reset_changes
\* the changes are empty and no field value has changed.
C4_SetMarksChanged ==
    [][\A i \in DOMAIN objs :
          /\ (Did("set", i) /\ result'.exc = "" =>
                /\ result'.arg[1] \in DOMAIN ChangeSet(objs'[i])
                /\ ChangeSet(objs'[i])[result'.arg[1]] = result'.arg[2])
          /\ (Did("obj_reset_changes", i) =>
                /\ objs'[i].changed = {}
                /\ objs'[i].val = objs[i].val)]_vars

\* A field was assigned the value it already had, and counts as changed.
C4_Witness ==
    /\ result.op = "set"
    /\ result.exc = ""
    /\ result.arg[3]
    /\ result.arg[1] \in objs[result.inst].changed

\* The fields of each kind.
IntegerFields == {f \in FieldNames : fields[f].type = "integer"}
NullableFields == {f \in FieldNames : fields[f].nullable}
RequiredFields == {f \in FieldNames : fields[f].type = "uuid"}

\* The row the last operation loaded its object from: the row fetched, or
\* the row the storage returned to create.
LoadedRow ==
    IF result.op = "get_by_id"
    THEN db[result.arg[1]]
    ELSE db[Key(objs[result.inst].val["id"])]

\* The last operation loaded an object from a row of the table.
Loaded ==
    \/ result.op = "get_by_id" /\ result.exc # "NotFound"
    \/ result.op = "create" /\ result.exc = ""

\* C5 as stated: a load yields 0 for every integer field that is null or
\* missing in the row, and null for every other field that is null or
\* missing in the row.
C5_NullsLoadAsZeroOrNull ==
    Loaded =>
        /\ result.exc = ""
        /\ \A f \in FieldNames :
              Get(LoadedRow, f) = None =>
                  /\ f \in DOMAIN objs[result.inst].val
                  /\ objs[result.inst].val[f] =
                        (IF f \in IntegerFields THEN IntV(0) ELSE None)

\* C5 amended: a load from a row in which id, user_id, project_id or
\* volume_id is null or missing raises ValueError; any other load returns an
\* object in which every integer field null or missing in the row is set and
\* 0, and every nullable string field null or missing in the row is null.
C5_NullIntegersLoadAsZero ==
    Loaded =>
        IF \E f \in RequiredFields : Get(LoadedRow, f) = None
        THEN result.exc = "ValueError"
        ELSE /\ result.exc = ""
             /\ \A f \in FieldNames :
                   Get(LoadedRow, f) = None =>
                       /\ f \in DOMAIN objs[result.inst].val
                       /\ objs[result.inst].val[f] =
                             (IF f \in IntegerFields THEN IntV(0) ELSE None)

\* An object was fetched from a row whose size is null and whose
\* object_count is missing.
C5_Witness ==
    /\ result.op = "get_by_id"
    /\ result.exc = ""
    /\ Get(LoadedRow, "size") = None
    /\ "object_count" \notin DOMAIN LoadedRow
    /\ objs[result.inst].val["size"] = IntV(0)
    /\ objs[result.inst].val["object_count"] = IntV(0)

-----------------------------------------------------------------------------
(* Claims about the codec and the version downgrade *)

\* The token decoded last is the untouched encoding of object 1.
RoundTrip == wire.stage = "decoded" /\ wire.intact

\* C6: decoding the encoding of an object with no extras yields exactly the
\* declared fields of the object with their current values, and no other
\* key.
C6_RoundTripIsFieldSnapshot ==
    (RoundTrip /\ wire.extras = EmptyMap /\ DOMAIN objs[1].val = FieldNames) =>
        /\ wire.out.exc = ""
        /\ wire.out.value = objs[1].val

\* C7: decoding the encoding of an object with one extra k = x yields the
\* object's own value at k when k is a declared field, and x otherwise; the
\* declared fields of the object are all there with their values.
C7_ExtrasPrecedence ==
    RoundTrip =>
        /\ wire.out.exc = ""
        /\ \A k \in DOMAIN wire.extras :
              /\ k \in DOMAIN wire.out.value
              /\ wire.out.value[k] = (IF k \in FieldNames
                                      THEN objs[1].val[k]
                                      ELSE wire.extras[k])
        /\ \A f \in DOMAIN objs[1].val :
              /\ f \in DOMAIN wire.out.value
              /\ wire.out.value[f] = objs[1].val[f]

\* The token without its newlines.
Unwrapped(tok) == SelectSeq(tok, LAMBDA c : c # NewlineChar)

\* A token is valid base64 when, newlines apart, it is groups of four
\* characters of the alphabet, the last group ending in at most two pads.
ValidBase64(tok) ==
    LET t == Unwrapped(tok)
    IN  /\ Len(t) % 4 = 0
        /\ \A p \in 1..Len(t) :
              \/ t[p] < PadChar
              \/ t[p] = PadChar /\ p = Len(t)
              \/ t[p] = PadChar /\ p = Len(t) - 1 /\ t[Len(t)] = PadChar

\* C8 as stated: a token that is not valid base64 fails with InvalidInput
\* and the "Can't decode" message.
C8_InvalidBase64CannotDecode ==
    (wire.stage = "decoded" /\ ~ValidBase64(wire.token)) =>
        /\ wire.out.exc = "InvalidInput"
        /\ wire.out.msg = "Can't decode backup record."

\* The decoder rejects a token when no pad ends the input and the
\* characters of the alphabet in it are not a whole number of groups of
\* four.
Undecodable(tok) ==
    /\ \A p \in 1..Len(tok) : ~PadEndsInput(tok, p)
    /\ DataBefore(tok, Len(tok) + 1) % 4 # 0

\* C8 amended: decode_record returns a value or raises InvalidInput, never
\* another error; it raises InvalidInput with "Can't decode" exactly for the
\* tokens the decoder rejects (characters outside the alphabet are skipped,
\* not rejected), and with "Can't parse" exactly when the decoded bytes are
\* no well-formed text.
C8_DecodeFailsWithInvalidInput ==
    wire.stage = "decoded" =>
        /\ wire.out.exc \in {"", "InvalidInput"}
        /\ (wire.out.exc = "InvalidInput" =>
              wire.out.msg \in {"Can't decode backup record.",
                                "Can't parse backup record."})
        /\ (wire.out.msg = "Can't decode backup record."
              <=> Undecodable(wire.token))
        /\ (wire.out.msg = "Can't parse backup record."
              <=> /\ ~Undecodable(wire.token)
                  /\ loads(decodestring(wire.token).bytes).exc # "")
        /\ (wire.out.exc = "" =>
              wire.out.value = loads(decodestring(wire.token).bytes).value)

\* A token with a character outside the alphabet was decoded to a dict.
C8_Witness ==
    /\ wire.stage = "decoded"
    /\ \E p \in 1..Len(wire.token) : wire.token[p] = OtherChar
    /\ wire.out.exc = ""
    /\ "id" \in DOMAIN wire.out.value

\* Whether version a is older than version b.
Older(a, b) ==
    LET x == convert_version_to_tuple(a)
        y == convert_version_to_tuple(b)
    IN  x[1] < y[1] \/ (x[1] = y[1] /\ x[2] < y[2])

\* The fields introduced after version 1.0 (in 1.1).
AddedIn11 == {"num_dependent_backups"}

\* C9: a primitive made compatible with a version older than 1.1 has no
\* field introduced after that version.
C9_DowngradeStripsNewFields ==
    (wire.stage = "compatible" /\ Older(wire.target, VERSION)) =>
        DOMAIN wire.primitive \cap AddedIn11 = {}

\* C10: making a primitive compatible with the version it was last made
\* compatible with changes nothing, and making a primitive compatible
\* leaves the object's field values and changes as they were.
C10_DowngradeIdempotent ==
    [][\A i \in DOMAIN objs :
          Did("obj_make_compatible", i) =>
              /\ objs'[i] = objs[i]
              /\ (wire.stage = "compatible" /\ wire.target = wire'.target =>
                    wire'.primitive = wire.primitive)]_vars

\* A primitive that holds num_dependent_backups has been made compatible
\* with 1.0 twice in a row.
C10_Witness ==
    /\ wire.stage = "compatible"
    /\ wire.target = "1.0"
    /\ result.op = "obj_make_compatible"
    /\ "num_dependent_backups" \in DOMAIN objs[1].val
    /\ wire.twice

\* The target versions that are at most the version of the class.
UpToCurrent == {v \in TargetVersions : ~Older(VERSION, v)}

\* C11: when a primitive w is made compatible with a version V2 that is at
\* most the current one, every key of w made compatible with an older
\* version V1 is a key of the result.
C11_DowngradeMonotonic ==
    [][\A i \in DOMAIN objs :
          (Did("obj_make_compatible", i) /\ wire.stage = "primitive"
           /\ wire'.target \in UpToCurrent) =>
              \A v1 \in UpToCurrent :
                  Older(v1, wire'.target) =>
                      DOMAIN obj_make_compatible(objs[i], wire.primitive,
                                                 v1).primitive
                          \subseteq DOMAIN wire'.primitive]_vars

\* A primitive that holds num_dependent_backups has been made compatible
\* with 1.1, a version with an older one below it.
C11_Witness ==
    /\ wire.stage = "compatible"
    /\ ~wire.twice
    /\ wire.target = "1.1"
    /\ result.op = "obj_make_compatible"
    /\ "num_dependent_backups" \in DOMAIN objs[1].val
    /\ \E v1 \in UpToCurrent : Older(v1, wire.target)

-----------------------------------------------------------------------------
(* Claims about destroy, the derived properties and the identity *)

\* C12: destroy on an object that has an id issues exactly one delete, keyed
\* by the id, with the context elevated to admin; whether the delete returns
\* or raises, the object's context is the caller's again afterwards, and no
\* state between operations has an elevated context.
C12_DestroyElevatedAndRestored ==
    [][/\ \A j \in DOMAIN objs' : ~objs'[j].admin
       /\ \A i \in DOMAIN objs :
             Did("destroy", i) =>
                 /\ objs'[i].admin = objs[i].admin
                 /\ obj_attr_is_set(objs[i], "id") =>
                       calls' = <<[op |-> "backup_destroy",
                                   id |-> Key(objs[i].val["id"]),
                                   values |-> EmptyMap,
                                   admin |-> TRUE]>>]_vars

\* A destroy whose delete raised NotFound: the call was elevated and the
\* object's context is the caller's.
C12_Witness ==
    /\ result.op = "destroy"
    /\ result.exc = "NotFound"
    /\ Len(calls) = 1
    /\ calls[1].admin
    /\ ~objs[result.inst].admin

\* C13: is_incremental is true exactly when parent_id is neither null nor
\* the empty string, has_dependent_backups is true exactly when
\* num_dependent_backups is greater than 0; no derived property is a key of
\* an object's fields, of the values of a storage call or of a stored row.
C13_DerivedConsistency ==
    /\ (result.op = "derived" /\ result.exc = "") =>
          LET o == objs[result.inst]
          IN  /\ result.arg[1] = (o.val["parent_id"] \notin {None, StrV("")})
              /\ result.arg[2] = (o.val["num_dependent_backups"][2] > 0)
    /\ \A i \in DOMAIN objs : DOMAIN objs[i].val \cap ExtraNames = {}
    /\ \A n \in 1..Len(calls) : DOMAIN calls[n].values \cap ExtraNames = {}
    /\ \A k \in DOMAIN db : DOMAIN db[k] \cap ExtraNames = {}

\* C14: once the id of an object is assigned, no set, create, save or
\* destroy on the object changes it, and an assignment to id is refused
\* with an error.
C14_IdAssignedOnce ==
    [][\A i \in DOMAIN objs :
          (/\ obj_attr_is_set(objs[i], "id")
           /\ result'.inst = i
           /\ result'.op \in {"set", "create", "save", "destroy"}) =>
              /\ objs'[i].val["id"] = objs[i].val["id"]
              /\ (result'.op = "set" /\ result'.arg[1] = "id") =>
                    result'.exc # ""]_vars

-----------------------------------------------------------------------------
(* Claims about the bulk fetches, create, destroy and failing storage calls *)

BulkOps ==
    {"get_all", "get_all_by_host", "get_all_by_project", "get_all_by_volume"}

\* C15: a bulk fetch that returns binds one object per row the storage
\* returned, in the order of the rows; each object has every declared field
\* set to the row's value, 0 for an integer field that is null or missing
\* in the row, and has no changes.  A bulk fetch raises nothing but the
\* ValueError of a row that does not load.
C15_BulkFetchLoadsEveryRow ==
    result.op \in BulkOps =>
        /\ result.exc \in {"", "ValueError"}
        /\ result.exc = "" =>
              LET rows == result.arg[1]
              IN  /\ Len(objs) = Len(rows)
                  /\ \A n \in 1..Len(rows) :
                        /\ rows[n] = db[Key(rows[n]["id"])]
                        /\ \A m \in 1..Len(rows) :
                              rows[m] = rows[n] => m = n
                        /\ objs[n].changed = {}
                        /\ DOMAIN objs[n].val = FieldNames
                        /\ \A f \in FieldNames :
                              objs[n].val[f] =
                                 (IF f \in IntegerFields
                                     /\ Get(rows[n], f) = None
                                  THEN IntV(0)
                                  ELSE Get(rows[n], f))

\* A bulk fetch returned two objects, the row of b2 before the row of a1,
\* and the null size of the first row was loaded as 0.
C15_Witness ==
    /\ result.op = "get_all_by_project"
    /\ result.exc = ""
    /\ Len(objs) = 2
    /\ objs[1].val["id"] = StrV("b2")
    /\ objs[2].val["id"] = StrV("a1")
    /\ Get(result.arg[1][1], "size") = None
    /\ objs[1].val["size"] = IntV(0)

C17_DestroyLeavesObject ==
    [][\A i \in DOMAIN objs :
          Did("destroy", i) =>
              /\ objs'[i] = objs[i]
              /\ \A k \in DOMAIN db' : k \in DOMAIN db /\ db'[k] = db[k]
              /\ \A k \in DOMAIN db \ DOMAIN db' :
                    /\ obj_attr_is_set(objs[i], "id")
                    /\ k = Key(objs[i].val["id"])]_vars

\* A destroy returned: the row is gone, and the object still has its id and
\* the change the caller made before.
C17_Witness ==
    /\ result.op = "destroy"
    /\ result.exc = ""
    /\ obj_attr_is_set(objs[result.inst], "id")
    /\ Key(objs[result.inst].val["id"]) \notin DOMAIN db
    /\ objs[result.inst].changed # {}

\* C18: a save whose update the storage fails (no row has the id) raises the
\* storage's NotFound, and a create whose insert the storage fails raises
\* the storage's error; in both cases the object's fields and changes and
\* the table are as before the call (so the id of the object created is
\* still unset, and the changes are still there for the next save).
C18_StorageErrorsPassThrough ==
    [][\A i \in DOMAIN objs :
          /\ (/\ Did("save", i)
              /\ objs[i].changed # {}
              /\ obj_attr_is_set(objs[i], "id")
              /\ Key(objs[i].val["id"]) \notin DOMAIN db) =>
                 /\ result'.exc = "NotFound"
                 /\ calls' = <<[op |-> "backup_update",
                                id |-> Key(objs[i].val["id"]),
                                values |-> ChangeSet(objs[i]),
                                admin |-> FALSE]>>
                 /\ objs'[i] = objs[i]
                 /\ db' = db
          /\ (Did("create", i) /\ result'.exc = "DBError") =>
                 /\ ~obj_attr_is_set(objs'[i], "id")
                 /\ objs'[i] = objs[i]
                 /\ db' = db
          /\ (Did("save", i) \/ Did("create", i)) =>
                 result'.exc \in {"", "NotFound", "DBError", "ActionError",
                                  "ValueError", "NotImplementedError"}]_vars

\* A save with changes raised NotFound and the changes are still there.
C18_Witness ==
    /\ result.op = "save"
    /\ result.exc = "NotFound"
    /\ objs[result.inst].changed # {}
    /\ Len(calls) = 1

\* C19: a create on an object whose id is set raises ActionError, issues no
\* storage call and changes neither the object nor the table, however the
\* id came to be set; a create that issues the insert was called on an
\* object whose id was not set.
C19_CreateRefusedWhenIdSet ==
    [][\A i \in DOMAIN objs :
          Did("create", i) =>
              /\ obj_attr_is_set(objs[i], "id") =>
                    /\ result'.exc = "ActionError"
                    /\ calls' = <<>>
                    /\ objs'[i] = objs[i]
                    /\ db' = db
              /\ calls' # <<>> => ~obj_attr_is_set(objs[i], "id")]_vars

\* A create was refused on the second object of a list, which the caller
\* neither created nor assigned to.
C19_Witness ==
    /\ result.op = "create"
    /\ result.exc = "ActionError"
    /\ result.inst = 2
    /\ ~hist[2].created
    /\ hist[2].assigned = {}
    /\ objs[2].changed = {}

\* C20: a save that returns writes to the row of the object's id the
\* object's value of each changed field and leaves every other field of the
\* row, and every other row, as stored, whatever another object of the same
\* row saved before.
C20_SaveOverwritesOwnChangesOnly ==
    [][\A i \in DOMAIN objs :
          (Did("save", i) /\ result'.exc = "" /\ objs[i].changed # {}) =>
              LET k == Key(objs[i].val["id"])
              IN  /\ DOMAIN db' = DOMAIN db
                  /\ \A j \in DOMAIN db \ {k} : db'[j] = db[j]
                  /\ \A f \in FieldNames :
                        Get(db'[k], f) = (IF f \in objs[i].changed
                                          THEN objs[i].val[f]
                                          ELSE Get(db[k], f))]_vars

\* Both objects hold the row b2; the second saved last, a change of size
\* only: the row has its size, and the parent the first one saved before,
\* which the second object never saw.
C20_Witness ==
    /\ DOMAIN objs = {1, 2}
    /\ result.op = "save"
    /\ result.inst = 2
    /\ result.exc = ""
    /\ Len(calls) = 1
    /\ obj_attr_is_set(objs[1], "id")
    /\ obj_attr_is_set(objs[2], "id")
    /\ objs[1].val["id"] = StrV("b2")
    /\ objs[2].val["id"] = StrV("b2")
    /\ db["b2"]["size"] = IntV(2)
    /\ db["b2"]["parent_id"] = StrV("q1")
    /\ objs[2].val["parent_id"] = StrV("p0")

=============================================================================
